---- MODULE Spec2Model ----
(***************************************************************************)
(* A model of CommandSketch (src/src/mash/CommandSketch.cpp): the options  *)
(* the constructor registers, and CommandSketch::run as a sequential       *)
(* program whose steps are the blocks of its body.  The collaborators the  *)
(* command calls (Sketch, Command, hasSuffix, splitFile) are modelled by   *)
(* what run() can observe of them: the calls it makes, in order, and the   *)
(* values they hand back.                                                  *)
(*                                                                         *)
(* Strings are sequences of one-character strings.  64-bit unsigned        *)
(* integers and the real-valued length threshold are exact naturals in     *)
(* base-10000 little-endian digits, so that values around 2^64 can be     *)
(* told apart; a warning probability is an exact fraction <<n, d>>.        *)
(***************************************************************************)
EXTENDS Integers, Sequences, FiniteSets, TLC

VARIABLES
    arguments,      \* Command::arguments, the positional arguments
    options,        \* Command::options, as set by the command-line parser
    parameters,     \* Sketch::Parameters parameters (line 53)
    pc,             \* position of control in run()
    lengthThreshold,\* uint64_t lengthThreshold (line 95)
    lengthMax,      \* uint64_t lengthMax (line 96), declared without a value
    randomChance,   \* double randomChance (line 97), declared without a value
    kMin,           \* int kMin (line 98), declared without a value
    lengthMaxName,  \* string lengthMaxName (line 99)
    warningCount,   \* int warningCount (line 100)
    files,          \* vector<string> files (line 102)
    i,              \* loop index of the scan (line 118)
    prefix,         \* string prefix (line 136)
    sketch,         \* Sketch sketch (line 93)
    calls,          \* the calls run() has made on its collaborators, in order
    written,        \* names of the sketch files written so far
    result,         \* value returned by run(), once it has returned
    readLog         \* the reads of lengthMax, lengthMaxName, randomChance, kMin
                    \* and arguments[0] made so far: what was read, whether it
                    \* held a defined value, and warningCount at the read

vars == <<arguments, options, parameters, pc, lengthThreshold, lengthMax,
          randomChance, kMin, lengthMaxName, warningCount, files, i, prefix,
          sketch, calls, written, result, readLog>>

-----------------------------------------------------------------------------
(* Bounds of the model *)

MaxRefs == 2
MaxLength == 3

-----------------------------------------------------------------------------
(* Exact natural-number arithmetic for uint64_t and double values *)

BASE == 10000

RECURSIVE BigFromInt(_)
BigFromInt(n) == IF n = 0 THEN <<>> ELSE <<n % BASE>> \o BigFromInt(n \div BASE)

\* b without its leading zero digits (the digits at its end).
BigNorm(b) ==
    LET used == { k \in 1..Len(b) : b[k] # 0 }
    IN  IF used = {} THEN <<>>
        ELSE SubSeq(b, 1, CHOOSE k \in used : \A j \in used : j <= k)

\* The digits of b * m + c from digit k on, c being the carry into digit k.
RECURSIVE BigMulAdd(_, _, _, _)
BigMulAdd(b, m, c, k) ==
    IF k > Len(b) THEN BigFromInt(c)
    ELSE LET t == b[k] * m + c
         IN  <<t % BASE>> \o BigMulAdd(b, m, t \div BASE, k + 1)

\* Operands are bound to their values before the digit loops run over them.
BigMulSmall(b, m) ==
    CHOOSE r \in { BigNorm(w) : w \in { BigMulAdd(v, m, 0, 1) : v \in {b} } } : TRUE

BigSucc(b) == CHOOSE r \in { BigMulAdd(v, 1, 1, 1) : v \in {b} } : TRUE

\* The digits k..1 of the quotient of b by m, highest first, r being the
\* remainder carried down from the digits above k.
RECURSIVE BigDivRem(_, _, _, _)
BigDivRem(b, m, r, k) ==
    IF k = 0 THEN <<>>
    ELSE LET cur == r * BASE + b[k]
         IN  <<cur \div m>> \o BigDivRem(b, m, cur % m, k - 1)

Reversed(s) == [ k \in 1..Len(s) |-> s[Len(s) + 1 - k] ]

BigDivSmall(b, m) ==
    CHOOSE r \in { BigNorm(Reversed(w)) :
                     w \in { BigDivRem(v, m, 0, Len(v)) : v \in {b} } } : TRUE

\* a < b for a and b of equal length: decided by the highest digit that differs.
BigLessFrom(a, b) ==
    LET differ == { k \in 1..Len(a) : a[k] # b[k] }
    IN  /\ differ # {}
        /\ LET top == CHOOSE k \in differ : \A j \in differ : j <= k
           IN  a[top] < b[top]

BigLess(a, b) ==
    \E x \in {a}, y \in {b} :
        IF Len(x) # Len(y) THEN Len(x) < Len(y) ELSE BigLessFrom(x, y)

RECURSIVE IntPow(_, _)
IntPow(a, k) == IF k = 0 THEN 1 ELSE a * IntPow(a, k - 1)

RECURSIVE BigPowBy(_, _)
BigPowBy(m, k) ==
    IF k = 0 THEN <<1>>
    ELSE CHOOSE r \in { BigMulSmall(p, m) : p \in {BigPowBy(m, k - 1)} } : TRUE

\* a^k for a <= 20, four factors at a time (20^4 times a digit fits an integer).
BigPow(a, k) == BigMulSmall(BigPowBy(IntPow(a, 4), k \div 4), IntPow(a, k % 4))

\* b - 1 for b > 0: the lowest non-zero digit gives one to the zeros below it.
BigPred(b) ==
    LET low == CHOOSE k \in 1..Len(b) : b[k] # 0 /\ \A j \in 1..(k - 1) : b[j] = 0
    IN  BigNorm([ k \in 1..Len(b) |->
                    IF k < low THEN BASE - 1
                    ELSE IF k = low THEN b[k] - 1 ELSE b[k] ])

TwoTo64 == BigPow(16, 16)
UINT64_MAX == BigPred(TwoTo64)

-----------------------------------------------------------------------------
(* Strings *)

suffixSketch == <<".", "m", "s", "h">>
Dash == <<"-">>
Stdin == <<"s", "t", "d", "i", "n">>

hasSuffix(whole, suffix) ==
    /\ Len(whole) >= Len(suffix)
    /\ SubSeq(whole, Len(whole) - Len(suffix) + 1, Len(whole)) = suffix

\* The lines of a list file (each names a sequence file).
FileLines(file) == << <<"h">>, <<"k">> >>

splitFile(file, list) == list \o FileLines(file)

-----------------------------------------------------------------------------
(* The inputs of a run *)

ArgumentLists ==
    { <<>>,
      << <<"g">> >>,
      << Dash >>,
      << <<"g">>, Dash >>,
      << <<"g", ".", "m", "s", "h">> >> }

PrefixArguments == { <<>>, <<"o">>, <<"o", ".", "m", "s", "h">> }

KmerSizes == {0, 1, 2}
SketchSizes == {0, 1000}
Warnings == { <<1, 5>>, <<1, 2>> }

\* The options the constructor registers (useOption / addOption).
OptionNames ==
    {"help", "list", "prefix", "kmer", "sketchSize", "individual", "warning",
     "reads", "minCov", "targetCov", "noncanonical", "threads"}

Options ==
    [ help : BOOLEAN, list : BOOLEAN, prefix : PrefixArguments,
      kmer : KmerSizes, sketchSize : SketchSizes, individual : BOOLEAN,
      warning : Warnings, reads : BOOLEAN, minCov : BOOLEAN,
      minCovNumber : {2}, targetCov : {0}, noncanonical : {FALSE},
      threads : {1} ]

\* Sketch::Parameters as its constructor leaves it; run() never assigns protein.
DefaultParameters(protein) ==
    [ kmerSize |-> 0, minHashesPerWindow |-> 0, concatenated |-> TRUE,
      noncanonical |-> FALSE, reads |-> FALSE, minCov |-> 0,
      targetCov |-> 0, windowed |-> FALSE, windowSize |-> 0,
      warning |-> <<0, 1>>, parallelism |-> 1, protein |-> protein ]

\* A local declared without an initial value, and one that was assigned.
Indeterminate == [def |-> FALSE, val |-> <<>>]
Defined(v) == [def |-> TRUE, val |-> v]

Lengths == { BigFromInt(n) : n \in 0..MaxLength }

RECURSIVE SeqsUpTo(_, _)
SeqsUpTo(S, n) ==
    IF n = 0 THEN { <<>> }
    ELSE LET shorter == SeqsUpTo(S, n - 1)
         IN  shorter \cup { Append(s, x) : s \in shorter, x \in S }

\* The References a sketch can hold after construction: names are distinct.
ReferenceLists ==
    { [ j \in 1..Len(ls) |-> [name |-> <<"r", j>>, length |-> ls[j]] ] :
        ls \in SeqsUpTo(Lengths, MaxRefs) }

EmptySketch == [built |-> FALSE, failed |-> FALSE, references |-> <<>>]

Init ==
    /\ arguments \in ArgumentLists
    /\ options \in Options
    /\ parameters \in { DefaultParameters(p) : p \in BOOLEAN }
    /\ pc = "start"
    /\ lengthThreshold = <<>>
    /\ lengthMax = Indeterminate
    /\ randomChance = Indeterminate
    /\ kMin = Indeterminate
    /\ lengthMaxName = Defined(<<>>)
    /\ warningCount = 0
    /\ files = <<>>
    /\ i = 0
    /\ prefix = <<>>
    /\ sketch = EmptySketch
    /\ calls = <<>>
    /\ written = <<>>
    /\ result = <<>>
    /\ readLog = {}

-----------------------------------------------------------------------------
(* The length threshold (line 95) *)

AlphabetSize(protein) == IF protein THEN 20 ELSE 4

\* warning * alphabetSize^k / (1 - warning), truncated toward zero.  The
\* value is computed exactly; the rounding of double arithmetic is not modelled.
TruncatedThreshold(warning, protein, kmerSize) ==
    BigDivSmall(BigMulSmall(BigPow(AlphabetSize(protein), kmerSize), warning[1]),
                warning[2] - warning[1])

\* The conversion of a non-negative double to uint64_t: the truncated value
\* when it is representable; otherwise the conversion is undefined and may
\* produce any value, of which these are representatives.
ToUint64(x) ==
    IF BigLess(x, TwoTo64) THEN {x} ELSE { <<>>, BigPow(8, 21), UINT64_MAX }

LengthThresholds(p) == ToUint64(TruncatedThreshold(p.warning, p.protein, p.kmerSize))

\* length > lengthThreshold (line 122)
Flagged(length, threshold) == BigLess(threshold, length)

-----------------------------------------------------------------------------
(* The collaborators' answers *)

Call(name, arg) == [call |-> name, arg |-> arg]

\* options.at(name) throws std::out_of_range for a name never registered.
AtThrows(names) == ~(names \subseteq OptionNames)

getRandomKmerChance(index) == [query |-> "getRandomKmerChance", index |-> index]

getMinKmerSize(index) == [query |-> "getMinKmerSize", index |-> index]

\* What construction can leave in the sketch: References in input order, or
\* a failure with no Reference when the input could not be opened or decoded.
InitOutcomes ==
    { [built |-> TRUE, failed |-> FALSE, references |-> refs] :
        refs \in ReferenceLists }
    \cup { [built |-> TRUE, failed |-> TRUE, references |-> <<>>] }

\* arguments[0]; reading it in an empty vector is undefined.
FirstArgument ==
    IF Len(arguments) > 0 THEN {arguments[1]} ELSE { Dash, <<"g">> }

-----------------------------------------------------------------------------
(* CommandSketch::run *)

\* The test of line 44 with && in place of ||.
UsageRequestedBoth == Len(arguments) = 0 /\ options.help

\* line 44: arguments.size() == 0 || options.at("help").active
UsageRequested == Len(arguments) = 0 \/ options.help

\* lines 44-48
PrintUsage ==
    /\ pc = "start"
    /\ UsageRequested
    /\ calls' = Append(calls, Call("print", <<>>))
    /\ result' = <<0>>
    /\ pc' = "done"
    /\ UNCHANGED <<arguments, options, parameters, lengthThreshold, lengthMax,
                   randomChance, kMin, lengthMaxName, warningCount, files, i,
                   prefix, sketch, written, readLog>>

\* Lines 53-70 without lines 67-70: minCov does not force read mode on.
ParametersFromUnforced(opts, params) ==
    [params EXCEPT
        !.kmerSize = opts.kmer,
        !.minHashesPerWindow = opts.sketchSize,
        !.concatenated = ~opts.individual,
        !.noncanonical = opts.noncanonical,
        !.reads = opts.reads,
        !.minCov = opts.minCovNumber,
        !.targetCov = opts.targetCov,
        !.windowed = FALSE,
        !.windowSize = 0,
        !.warning = opts.warning,
        !.parallelism = opts.threads]

\* lines 53-70: the fields run() assigns, from the options
ParametersFrom(opts, params) ==
    [params EXCEPT
        !.kmerSize = opts.kmer,
        !.minHashesPerWindow = opts.sketchSize,
        !.concatenated = ~opts.individual,
        !.noncanonical = opts.noncanonical,
        !.reads = IF opts.minCov THEN TRUE ELSE opts.reads,
        !.minCov = opts.minCovNumber,
        !.targetCov = opts.targetCov,
        !.windowed = FALSE,
        !.windowSize = 0,
        !.warning = opts.warning,
        !.parallelism = opts.threads]

\* lines 50-70
ReadParameters ==
    /\ pc = "start"
    /\ ~UsageRequested
    /\ parameters' = ParametersFrom(options, parameters)
    /\ pc' = "check"
    /\ UNCHANGED <<arguments, options, lengthThreshold, lengthMax, randomChance,
                   kMin, lengthMaxName, warningCount, files, i, prefix, sketch,
                   calls, written, result, readLog>>

ReadsIndividualConflict == parameters.reads /\ ~parameters.concatenated
ConcatWindowedConflict == parameters.concatenated /\ parameters.windowed

\* lines 72-82: the message is built from options.at(...) before run returns 1.
ConfigurationError ==
    /\ pc = "check"
    /\ (ReadsIndividualConflict \/ ConcatWindowedConflict)
    /\ LET named == IF ReadsIndividualConflict
                    THEN {"individual", "unique"}
                    ELSE {"concat", "windowed"}
       IN  IF AtThrows(named)
           THEN /\ pc' = "threw"
                /\ UNCHANGED <<calls, result>>
           ELSE /\ calls' = Append(calls, Call("cerr", "ERROR"))
                /\ result' = <<1>>
                /\ pc' = "done"
    /\ UNCHANGED <<arguments, options, parameters, lengthThreshold, lengthMax,
                   randomChance, kMin, lengthMaxName, warningCount, files, i,
                   prefix, sketch, written, readLog>>

RECURSIVE CollectFiles(_, _)
\* lines 102-114
CollectFiles(args, list) ==
    IF args = <<>> THEN <<>>
    ELSE (IF list THEN splitFile(Head(args), <<>>) ELSE <<Head(args)>>)
         \o CollectFiles(Tail(args), list)

\* lines 84-114: the suffix loop does nothing (false && ...).
PrepareSketch ==
    /\ pc = "check"
    /\ ~(ReadsIndividualConflict \/ ConcatWindowedConflict)
    /\ lengthThreshold' \in LengthThresholds(parameters)
    /\ warningCount' = 0
    /\ files' = CollectFiles(arguments, options.list)
    /\ pc' = "init"
    /\ UNCHANGED <<arguments, options, parameters, lengthMax, randomChance,
                   kMin, lengthMaxName, i, prefix, sketch, calls, written,
                   result, readLog>>

\* line 116: whatever initFromFiles reports is discarded; the call is logged
\* with what it was given and what it left in the sketch.
InitFromFilesWith(outcomes) ==
    /\ pc = "init"
    /\ sketch' \in outcomes
    /\ calls' = Append(calls, Call("initFromFiles",
                   [files |-> files, parameters |-> parameters, left |-> sketch']))
    /\ i' = 0
    /\ pc' = "scan"
    /\ UNCHANGED <<arguments, options, parameters, lengthThreshold, lengthMax,
                   randomChance, kMin, lengthMaxName, warningCount, files,
                   prefix, written, result, readLog>>

InitFromFiles == InitFromFilesWith(InitOutcomes)

Read(object, value) ==
    [object |-> object, defined |-> value.def, warningCount |-> warningCount]

\* Line 124 with >= in place of >.
UpdateConditionGe(length) ==
    IF warningCount = 0
    THEN [reads |-> {}, outcomes |-> {TRUE}]
    ELSE [reads |-> {Read("lengthMax", lengthMax)},
          outcomes |-> IF lengthMax.def
                       THEN {~BigLess(length, lengthMax.val)}
                       ELSE BOOLEAN]

\* Line 124 with its operands exchanged: length > lengthMax || warningCount == 0.
UpdateConditionEager(length) ==
    [reads |-> {Read("lengthMax", lengthMax)},
     outcomes |-> IF lengthMax.def
                  THEN {warningCount = 0 \/ BigLess(lengthMax.val, length)}
                  ELSE IF warningCount = 0 THEN {TRUE} ELSE BOOLEAN]

\* line 124: warningCount == 0 || length > lengthMax.  The right operand is
\* evaluated, and lengthMax read, only when the left one is false; comparing
\* with an indeterminate lengthMax can give either answer.
UpdateCondition(length) ==
    IF warningCount = 0
    THEN [reads |-> {}, outcomes |-> {TRUE}]
    ELSE [reads |-> {Read("lengthMax", lengthMax)},
          outcomes |-> IF lengthMax.def
                       THEN {BigLess(lengthMax.val, length)}
                       ELSE BOOLEAN]

\* lines 118-134, one iteration
ScanReference ==
    /\ pc = "scan"
    /\ i < Len(sketch.references)
    /\ LET reference == sketch.references[i + 1]
           length == reference.length
           flagged == Flagged(length, lengthThreshold)
           cond == IF flagged THEN UpdateCondition(length)
                   ELSE [reads |-> {}, outcomes |-> {FALSE}]
       IN  \E update \in cond.outcomes :
             /\ IF update
                THEN /\ lengthMax' = Defined(length)
                     /\ lengthMaxName' = Defined(reference.name)
                     /\ randomChance' = Defined(getRandomKmerChance(i))
                     /\ kMin' = Defined(getMinKmerSize(i))
                     /\ calls' = calls \o << Call("getReference", i),
                                            Call("getReference", i),
                                            Call("getRandomKmerChance", i),
                                            Call("getMinKmerSize", i) >>
                ELSE /\ UNCHANGED <<lengthMax, lengthMaxName, randomChance, kMin>>
                     /\ calls' = Append(calls, Call("getReference", i))
             /\ warningCount' = IF flagged THEN warningCount + 1 ELSE warningCount
             /\ readLog' = readLog \cup cond.reads
    /\ i' = i + 1
    /\ UNCHANGED <<arguments, options, parameters, pc, lengthThreshold, files,
                   prefix, sketch, written, result>>

\* Lines 154-159 without the hasSuffix test.
WithSuffixAlways(name) == name \o suffixSketch

\* lines 154-159: parameters.windowed is false, so the suffix is suffixSketch
WithSuffix(name) ==
    IF ~hasSuffix(name, suffixSketch) THEN name \o suffixSketch ELSE name

\* lines 136-159, after the scan's loop has ended
ResolvePrefix ==
    /\ pc = "scan"
    /\ ~(i < Len(sketch.references))
    /\ IF Len(options.prefix) > 0
       THEN /\ prefix' = WithSuffix(options.prefix)
            /\ UNCHANGED readLog
       ELSE /\ \E first \in FirstArgument :
                  prefix' = WithSuffix(IF first = Dash THEN Stdin ELSE first)
            /\ readLog' = readLog \cup
                  { [object |-> "arguments[0]",
                     defined |-> Len(arguments) > 0,
                     warningCount |-> warningCount] }
    /\ pc' = "write"
    /\ UNCHANGED <<arguments, options, parameters, lengthThreshold, lengthMax,
                   randomChance, kMin, lengthMaxName, warningCount, files, i,
                   sketch, calls, written, result>>

\* lines 161-163
WriteToCapnp ==
    /\ pc = "write"
    /\ calls' = Append(calls, Call("writeToCapnp", prefix))
    /\ written' = Append(written, prefix)
    /\ pc' = "warn"
    /\ UNCHANGED <<arguments, options, parameters, lengthThreshold, lengthMax,
                   randomChance, kMin, lengthMaxName, warningCount, files, i,
                   prefix, sketch, result, readLog>>

\* Lines 165-170 without the test of parameters.reads.
WarnKmerSizeInReadMode ==
    /\ pc = "warn"
    /\ warningCount > 0
    /\ calls' = Append(calls, Call("warnKmerSize",
                   [lengthMax |-> lengthMax, lengthMaxName |-> lengthMaxName,
                    randomChance |-> randomChance, kMin |-> kMin,
                    warningCount |-> warningCount]))
    /\ readLog' = readLog \cup
          { Read("lengthMax", lengthMax), Read("lengthMaxName", lengthMaxName),
            Read("randomChance", randomChance), Read("kMin", kMin) }
    /\ result' = <<0>>
    /\ pc' = "done"
    /\ UNCHANGED <<arguments, options, parameters, lengthThreshold, lengthMax,
                   randomChance, kMin, lengthMaxName, warningCount, files, i,
                   prefix, sketch, written>>

\* lines 165-170, the warning is due
WarnKmerSize ==
    /\ pc = "warn"
    /\ warningCount > 0 /\ ~parameters.reads
    /\ calls' = Append(calls, Call("warnKmerSize",
                   [lengthMax |-> lengthMax, lengthMaxName |-> lengthMaxName,
                    randomChance |-> randomChance, kMin |-> kMin,
                    warningCount |-> warningCount]))
    /\ readLog' = readLog \cup
          { Read("lengthMax", lengthMax), Read("lengthMaxName", lengthMaxName),
            Read("randomChance", randomChance), Read("kMin", kMin) }
    /\ result' = <<0>>
    /\ pc' = "done"
    /\ UNCHANGED <<arguments, options, parameters, lengthThreshold, lengthMax,
                   randomChance, kMin, lengthMaxName, warningCount, files, i,
                   prefix, sketch, written>>

\* lines 165-170, no warning is due
ReturnWithoutWarning ==
    /\ pc = "warn"
    /\ ~(warningCount > 0 /\ ~parameters.reads)
    /\ result' = <<0>>
    /\ pc' = "done"
    /\ UNCHANGED <<arguments, options, parameters, lengthThreshold, lengthMax,
                   randomChance, kMin, lengthMaxName, warningCount, files, i,
                   prefix, sketch, calls, written, readLog>>

Next ==
    \/ PrintUsage
    \/ ReadParameters
    \/ ConfigurationError
    \/ PrepareSketch
    \/ InitFromFiles
    \/ ScanReference
    \/ ResolvePrefix
    \/ WriteToCapnp
    \/ WarnKmerSize
    \/ ReturnWithoutWarning

Spec == Init /\ [][Next]_vars

-----------------------------------------------------------------------------
(* The threshold alone: run() from the configuration checks to the end of   *)
(* the scan, for every k-mer size and a sketch of one Reference whose       *)
(* length lies at the threshold.                                            *)

MaxKmer == 32

ThresholdWarnings == { <<0, 1>>, <<1, 100>>, <<1, 2>>, <<99, 100>> }

ThresholdOptions ==
    { [ help |-> FALSE, list |-> FALSE, prefix |-> <<>>, kmer |-> k,
        sketchSize |-> 1000, individual |-> FALSE, warning |-> w,
        reads |-> FALSE, minCov |-> FALSE, minCovNumber |-> 2,
        targetCov |-> 0, noncanonical |-> FALSE, threads |-> 1 ] :
        k \in 1..MaxKmer, w \in ThresholdWarnings }

\* warning * alphabetSize^k, and whether length exceeds the real-valued
\* threshold warning * alphabetSize^k / (1 - warning).
ExceedsExactThreshold(length, p) ==
    BigLess(BigMulSmall(BigPow(AlphabetSize(p.protein), p.kmerSize), p.warning[1]),
            BigMulSmall(length, p.warning[2] - p.warning[1]))

ProbeLengths(p) ==
    LET t == TruncatedThreshold(p.warning, p.protein, p.kmerSize)
    IN  { l \in { <<>>, <<1>>, t, BigSucc(t), UINT64_MAX } : BigLess(l, TwoTo64) }

ProbeOutcomes ==
    { [built |-> TRUE, failed |-> FALSE,
       references |-> << [name |-> <<"r", 1>>, length |-> l] >>] :
        l \in ProbeLengths(parameters) }

ProbeSketch == InitFromFilesWith(ProbeOutcomes)

ThresholdInit ==
    /\ arguments = << <<"g">> >>
    /\ options \in ThresholdOptions
    /\ parameters \in { ParametersFrom(options, DefaultParameters(p)) : p \in BOOLEAN }
    /\ pc = "check"
    /\ lengthThreshold = <<>>
    /\ lengthMax = Indeterminate
    /\ randomChance = Indeterminate
    /\ kMin = Indeterminate
    /\ lengthMaxName = Defined(<<>>)
    /\ warningCount = 0
    /\ files = <<>>
    /\ i = 0
    /\ prefix = <<>>
    /\ sketch = EmptySketch
    /\ calls = <<>>
    /\ written = <<>>
    /\ result = <<>>
    /\ readLog = {}

ThresholdNext ==
    \/ PrepareSketch
    \/ ProbeSketch
    \/ ScanReference

ThresholdSpec == ThresholdInit /\ [][ThresholdNext]_vars

-----------------------------------------------------------------------------
(* Vocabulary of the properties *)

CallsOf(name) == { j \in 1..Len(calls) : calls[j].call = name }

Called(name) == CallsOf(name) # {}

\* Read mode is in effect: the reads option is active, or minCov is.
ReadMode == options.reads \/ options.minCov

\* run() went past the usage test of line 44.
PastUsage == Len(arguments) > 0 /\ ~options.help

Terminated == pc \in {"done", "threw"}

References == sketch.references

FlaggedIndices ==
    { j \in 1..Len(References) : BigLess(lengthThreshold, References[j].length) }

\* The flagged Reference of greatest length, the earliest of them.
Worst ==
    CHOOSE j \in FlaggedIndices :
        \A m \in FlaggedIndices :
            \/ BigLess(References[m].length, References[j].length)
            \/ (References[m].length = References[j].length /\ j <= m)

EndsWithMsh(s) ==
    /\ Len(s) >= 4
    /\ s[Len(s) - 3] = "." /\ s[Len(s) - 2] = "m"
    /\ s[Len(s) - 1] = "s" /\ s[Len(s)] = "h"

MshAppended(s) == s \o <<".", "m", "s", "h">>

ScanCalls ==
    CallsOf("getReference") \cup CallsOf("getRandomKmerChance")
        \cup CallsOf("getMinKmerSize")

-----------------------------------------------------------------------------
(* C1: whenever read mode is in effect (reads active, or forced on by       *)
(* minCov) together with individual mode, a run that gets past the usage    *)
(* test ends by returning exit status 1, initFromFiles is never called and  *)
(* no sketch file is written.                                               *)
C1_ReadIndividualReturnsOne ==
    (ReadMode /\ options.individual /\ PastUsage) =>
        /\ ~Called("initFromFiles")
        /\ written = <<>>
        /\ Terminated => (pc = "done" /\ result = <<1>>)

(* C2: with a k-mer size or sketch size that is zero or negative, a run     *)
(* that gets past the usage test never calls initFromFiles, writes no       *)
(* sketch file, and ends with a non-zero status.                            *)
C2_InvalidSizesRejected ==
    ((options.kmer <= 0 \/ options.sketchSize <= 0) /\ PastUsage) =>
        /\ ~Called("initFromFiles")
        /\ written = <<>>
        /\ Terminated => result # <<0>>

(* C3: when construction fails for the only input, run writes no sketch     *)
(* and does not return 0.                                                   *)
C3_OnlyInputFailureFails ==
    (Len(files) = 1 /\ sketch.failed) =>
        /\ written = <<>>
        /\ pc = "done" => result # <<0>>

(* C4: the summary given to warnKmerSize is the length and name of the      *)
(* flagged Reference of greatest length (the earliest one among equals),    *)
(* the collision chance and minimum k-mer size queried for that Reference's *)
(* index, and the number of flagged References.                             *)
C4_WarningSummary ==
    \A c \in CallsOf("warnKmerSize") :
        LET given == calls[c].arg
        IN  /\ FlaggedIndices # {}
            /\ given.lengthMax = [def |-> TRUE, val |-> References[Worst].length]
            /\ given.lengthMaxName = [def |-> TRUE, val |-> References[Worst].name]
            /\ given.randomChance.def /\ given.kMin.def
            /\ given.randomChance.val.query = "getRandomKmerChance"
            /\ given.randomChance.val.index = Worst - 1
            /\ given.kMin.val.query = "getMinKmerSize"
            /\ given.kMin.val.index = Worst - 1
            /\ given.warningCount = Cardinality(FlaggedIndices)

\* The warning was given for a sketch in which two flagged References share
\* the greatest length.
C4_Witness ==
    /\ pc = "done"
    /\ Called("warnKmerSize")
    /\ \E j, m \in FlaggedIndices :
          /\ j < m
          /\ References[j].length = References[m].length
          /\ \A n \in FlaggedIndices :
                ~BigLess(References[j].length, References[n].length)

(* C5: warnKmerSize is called exactly once in a run that is not in read     *)
(* mode and has a flagged Reference, and not at all otherwise; with or      *)
(* without the warning, a run that built its sketch writes it once and      *)
(* returns 0.                                                               *)
C5_WarningOnceAndAdvisory ==
    /\ Cardinality(CallsOf("warnKmerSize")) <= 1
    /\ Called("warnKmerSize") => (~ReadMode /\ FlaggedIndices # {})
    /\ pc = "done" =>
          (Called("warnKmerSize") <=> (~ReadMode /\ FlaggedIndices # {}))
    /\ (pc = "done" /\ Called("initFromFiles")) =>
          (Len(written) = 1 /\ result = <<0>>)

C5_Witness ==
    /\ pc = "done"
    /\ Cardinality(CallsOf("warnKmerSize")) = 1
    /\ Len(written) = 1
    /\ result = <<0>>

(* C6: for every k-mer size in 1..32 and warning probability in [0,1), the  *)
(* real-valued threshold fits in 64 bits, and a Reference is flagged by the *)
(* 64-bit lengthThreshold exactly when its length exceeds                   *)
(* warning * alphabetSize^k / (1 - warning).                                *)
C6_ThresholdExact ==
    /\ pc \in {"init", "scan"} =>
       BigLess(TruncatedThreshold(parameters.warning, parameters.protein,
                                  parameters.kmerSize), TwoTo64)
    /\ (pc = "scan" /\ i = 1) =>
          ((warningCount = 1) <=>
              ExceedsExactThreshold(References[1].length, parameters))

\* The name the description promises: the -o prefix, else stdin if standard
\* input is among the arguments, else the first argument; with '.msh'
\* appended unless it is there already.
DocumentedName ==
    LET chosen == IF options.prefix # <<>> THEN options.prefix
                  ELSE IF \E j \in 1..Len(arguments) : arguments[j] = Dash
                       THEN Stdin
                       ELSE arguments[1]
    IN  IF EndsWithMsh(chosen) THEN chosen ELSE MshAppended(chosen)

ChosenName ==
    IF options.prefix # <<>> THEN options.prefix
    ELSE IF arguments[1] = Dash THEN Stdin ELSE arguments[1]

C8_NoScanInReadMode == ReadMode => ScanCalls = {}

(* C8, amended: in read mode the adequacy check is never reported           *)
(* (warnKmerSize is not called), although the scan still examines every     *)
(* Reference and queries the flagged ones.                                  *)
C8_NoWarningInReadMode ==
    ReadMode =>
        /\ ~Called("warnKmerSize")
        /\ (pc \in {"write", "warn", "done"} /\ Called("initFromFiles")) =>
              \A j \in 1..Len(References) :
                  \E c \in CallsOf("getReference") : calls[c].arg = j - 1

C8_Witness ==
    /\ ReadMode
    /\ pc = "done"
    /\ warningCount > 0
    /\ Called("getMinKmerSize")
    /\ ~Called("warnKmerSize")

(* C9: a run that passes the help and configuration checks calls            *)
(* initFromFiles once, then scans the References, then calls writeToCapnp   *)
(* once, and calls warnKmerSize only after the write; from initFromFiles on *)
(* the sketch stays as initFromFiles left it.  A run with no arguments or   *)
(* with help active prints the usage, returns 0 and calls neither.          *)
C9_OperationOrder ==
    /\ (Len(arguments) = 0 \/ options.help) =>
          /\ ~Called("initFromFiles") /\ ~Called("writeToCapnp")
          /\ Terminated => (pc = "done" /\ result = <<0>> /\ Called("print"))
    /\ Cardinality(CallsOf("initFromFiles")) <= 1
    /\ Cardinality(CallsOf("writeToCapnp")) <= 1
    /\ (PastUsage /\ ~(ReadMode /\ options.individual)) =>
          /\ pc # "threw"
          /\ pc \in {"scan", "write"} =>
                (Called("initFromFiles") /\ ~Called("writeToCapnp"))
          /\ pc \in {"warn", "done"} =>
                (Called("initFromFiles") /\ Called("writeToCapnp"))
          /\ pc = "done" => result = <<0>>
    /\ \A a \in CallsOf("initFromFiles") : sketch = calls[a].arg.left
    /\ \A s \in ScanCalls :
          /\ \E a \in CallsOf("initFromFiles") : a < s
          /\ \A w \in CallsOf("writeToCapnp") : s < w
    /\ \A w \in CallsOf("writeToCapnp") :
          /\ \E a \in CallsOf("initFromFiles") : a < w
          /\ \A j \in 1..Len(References) :
                \E c \in CallsOf("getReference") : calls[c].arg = j - 1
    /\ \A k \in CallsOf("warnKmerSize") :
          \E w \in CallsOf("writeToCapnp") : w < k

C9_Witness ==
    /\ pc = "done"
    /\ \E a \in CallsOf("initFromFiles") :
          \E s \in CallsOf("getMinKmerSize") :
              \E w \in CallsOf("writeToCapnp") :
                  \E k \in CallsOf("warnKmerSize") : a < s /\ s < w /\ w < k

(* C10: lengthMax, lengthMaxName, randomChance and kMin are read only when  *)
(* warningCount > 0 and they hold an assigned value; arguments[0] is read   *)
(* only when the argument list is not empty.                                *)
C10_NoUndefinedRead ==
    /\ \A r \in readLog :
          /\ r.defined
          /\ r.object = "arguments[0]" => Len(arguments) > 0
          /\ r.object # "arguments[0]" => r.warningCount > 0
    /\ warningCount > 0 =>
          (lengthMax.def /\ lengthMaxName.def /\ randomChance.def /\ kMin.def)

\* lengthMax was read by the comparison of the scan (no warning was given in
\* read mode), and arguments[0] was read for the file name.
C10_Witness ==
    /\ pc = "done"
    /\ ReadMode
    /\ \E r \in readLog : r.object = "lengthMax"
    /\ \E r \in readLog : r.object = "arguments[0]"

====
